---- MODULE Spec2Model ----
(***************************************************************************)
(* Model of src/utils/actions.ts of linear-cli: the three page-opening     *)
(* operations (openIssuePage, openProjectPage, openTeamAssigneeView) and   *)
(* the startWorkOnIssue workflow with its helpers checkoutBranch,          *)
(* createBranch and findAvailableBranchName.                               *)
(*                                                                         *)
(* One behaviour is one CLI invocation (one process).  Every `await` of    *)
(* the source is a step of its own.  Every call that leaves actions.ts     *)
(* (tracker client, configuration, prompt, subprocess, OS opener) is       *)
(* appended to `calls` in the order the code makes it, and every           *)
(* console.log / console.error line to `log`.                              *)
(*                                                                         *)
(* The tracker calls fetchIssueDetails, getStartedState, updateIssueState  *)
(* and the probe branchExists either return or reject; a subprocess ends   *)
(* with a zero or a non-zero exit status; the configuration, the prompt,   *)
(* getIssueIdentifier, getTeamKey and open return.                         *)
(*                                                                         *)
(* JavaScript values are strings here; `Undefined` stands for undefined.   *)
(* The check-mark glyph that starts the success lines is left out of the   *)
(* log texts.                                                              *)
(***************************************************************************)
EXTENDS Integers, Sequences, FiniteSets, TLC

VARIABLES
    existing,                  \* the branches of the local repository
    config,                    \* the configuration options getOption reads
    op,                        \* the exported function this process runs
    pc,                        \* the position in that function
    outcome,                   \* "running", "returned", "threw", "exit1"
    issueId, teamId, gitSourceRef,          \* parameters / resolved ids
    providedId, projectId,                  \* parameters of the page openers
    branchName, preferGraphite,             \* startWorkOnIssue locals
    branchOperationSucceeded, answer,
    suffix, newBranch,                      \* findAvailableBranchName locals
    state,                                  \* result of getStartedState
    workspace, url, app,                    \* page-opener locals
    calls,                     \* external calls, in call order
    log                        \* console output, in order

vars == << existing, config, op, pc, outcome, issueId, teamId, gitSourceRef,
           providedId, projectId,
           branchName, preferGraphite, branchOperationSucceeded, answer,
           suffix, newBranch, state, workspace, url, app, calls, log >>

-----------------------------------------------------------------------------
(* Bounds and input sets *)

\* Highest suffix of a branch the repository may already hold.
MaxSuffix == 2

Undefined == "<undefined>"

\* !v of JavaScript for a string-or-undefined value.
Falsy(v) == v = Undefined \/ v = ""

\* Branch names fetchIssueDetails may derive; the second one is itself of
\* the form <first>-1, so the two suffix families share names.
BranchNames == {"eng-123", "eng-123-1"}

IssueIds == {"ENG-123", ""}
TeamIds == {"ENG"}
SourceRefs == {Undefined, "", "main"}
ProjectIds == {"proj-1"}
ResolvedIssueIds == {Undefined, "ENG-123"}
TeamKeys == {Undefined, "ENG"}
WorkspaceValues == {Undefined, "", "acme"}
PreferGraphiteValues == {Undefined, "true", "false"}
StartedStates == {[id |-> "state-1", name |-> "In Progress"],
                  [id |-> "state-2", name |-> "Started"]}
Answers == {"switch", "create"}

-----------------------------------------------------------------------------
(* Records of the traces *)

Call(fn, args, ret, threw) ==
    [fn |-> fn, args |-> args, ret |-> ret, threw |-> threw]

Log(stream, msg) == [stream |-> stream, msg |-> msg]

CallsOf(fn) == SelectSeq(calls, LAMBDA c : c.fn = fn)

\* The subprocesses spawned so far (new Deno.Command(...)).
Spawned == CallsOf("Deno.Command")

\* Deno.exit(1) or an uncaught exception ends the process at once.
Terminate(how) == pc' = "done" /\ outcome' = how

-----------------------------------------------------------------------------
(* Collaborators outside actions.ts *)

\* branchExists of ./git.ts: whether the repository holds the branch.
branchExists(b) == b \in existing

-----------------------------------------------------------------------------
(* Pure parts of startWorkOnIssue and its helpers *)

\* `${baseName}-${suffix}`
SuffixedName(baseName, n) == baseName \o "-" \o ToString(n)

\* A loop that forgets suffix++: it probes the same name again and again.
NextSuffix_Stuck(n) == n

\* A loop that steps the suffix by two: it skips every other name.
NextSuffix_Skip(n) == n + 2

\* suffix++
NextSuffix(n) == n + 1

\* A test of the option's truthiness: the string "false" selects gt as well.
IsPreferGraphite_Truthy(v) == ~Falsy(v)

\* getOption("prefer_graphite") === "true"
IsPreferGraphite(v) == v = "true"

\* A checkout that passes -b: it creates instead of switching.
checkoutCommand_NewBranch(b, pg) ==
    IF pg THEN << "gt", "create", b >>
          ELSE << "git", "checkout", "-b", b, "HEAD" >>

\* The command line checkoutBranch spawns.
checkoutCommand(b, pg) ==
    IF pg THEN << "gt", "checkout", b >>
          ELSE << "git", "checkout", b >>

\* A create that hands the source ref to gt as well.
createCommand_RefToGraphite(b, pg, ref) ==
    IF pg THEN << "gt", "create", b, IF Falsy(ref) THEN "HEAD" ELSE ref >>
          ELSE << "git", "checkout", "-b", b, IF Falsy(ref) THEN "HEAD" ELSE ref >>

\* A create that drops the source ref and always branches from HEAD.
createCommand_IgnoreRef(b, pg, ref) ==
    IF pg THEN << "gt", "create", b >>
          ELSE << "git", "checkout", "-b", b, "HEAD" >>

\* The command line createBranch spawns; gitSourceRef || "HEAD".
createCommand(b, pg, ref) ==
    IF pg THEN << "gt", "create", b >>
          ELSE << "git", "checkout", "-b", b, IF Falsy(ref) THEN "HEAD" ELSE ref >>

checkoutMessage(b, pg) ==
    IF pg THEN "Switched to '" \o b \o "' using Graphite"
          ELSE "Switched to '" \o b \o "'"

createMessage(b, pg) ==
    IF pg THEN "Created and switched to branch '" \o b \o "' using Graphite"
          ELSE "Created and switched to branch '" \o b \o "'"

ExitStatus(success) == IF success THEN "success" ELSE "failure"

BranchFailedMessage == "Branch operation failed - issue state not updated"
UpdateFailedMessage == "Failed to update issue state:"
NoIssueIdMessage == "No issue ID resolved"

\* The state update without its guard: it is attempted after a failed
\* branch operation too.
AfterBranchOperation_Unguarded(ok, lg) ==
    /\ branchOperationSucceeded' = ok
    /\ pc' = "getStartedState"
    /\ outcome' = outcome
    /\ log' = lg

\* A failed branch operation that ends the process instead of returning.
AfterBranchOperation_ExitOnFailure(ok, lg) ==
    /\ branchOperationSucceeded' = ok
    /\ IF ok
         THEN /\ pc' = "getStartedState"
              /\ outcome' = outcome
              /\ log' = lg
         ELSE /\ pc' = "done"
              /\ outcome' = "exit1"
              /\ log' = Append(lg, Log("log", BranchFailedMessage))

\* What follows the branch operation: `if (branchOperationSucceeded)` goes on
\* to the state update, the else branch logs and the function returns.
\* lg is the log as the branch operation left it.
AfterBranchOperation(ok, lg) ==
    /\ branchOperationSucceeded' = ok
    /\ IF ok
         THEN /\ pc' = "getStartedState"
              /\ outcome' = outcome
              /\ log' = lg
         ELSE /\ pc' = "done"
              /\ outcome' = "returned"
              /\ log' = Append(lg, Log("log", BranchFailedMessage))

\* checkoutBranch: spawn the command, wait for its exit status, log on
\* success and return the status as a boolean.
checkoutBranch(b, pg) ==
    \E success \in BOOLEAN :
        /\ calls' = Append(calls, Call("Deno.Command", checkoutCommand(b, pg),
                                       ExitStatus(success), FALSE))
        /\ existing' = existing
        /\ AfterBranchOperation(success,
               IF success THEN Append(log, Log("log", checkoutMessage(b, pg)))
                          ELSE log)

\* createBranch: the same for the create command; a successful create adds
\* the branch to the repository.
createBranch(b, pg, ref) ==
    \E success \in BOOLEAN :
        /\ calls' = Append(calls, Call("Deno.Command", createCommand(b, pg, ref),
                                       ExitStatus(success), FALSE))
        /\ existing' = IF success THEN existing \cup {b} ELSE existing
        /\ AfterBranchOperation(success,
               IF success THEN Append(log, Log("log", createMessage(b, pg)))
                          ELSE log)

-----------------------------------------------------------------------------
(* startWorkOnIssue, one action per await *)

\* The CLI calls startWorkOnIssue(issueId, teamId, gitSourceRef).
StartWorkOnIssue ==
    /\ pc = "idle"
    /\ \E i \in IssueIds, t \in TeamIds, r \in SourceRefs :
          /\ issueId' = i
          /\ teamId' = t
          /\ gitSourceRef' = r
    /\ op' = "startWorkOnIssue"
    /\ pc' = "fetchIssueDetails"
    /\ UNCHANGED << existing, config, outcome, branchName, preferGraphite,
                    branchOperationSucceeded, answer, suffix, newBranch, state,
                    workspace, url, app, providedId, projectId, calls, log >>

\* await fetchIssueDetails(issueId, true), then the read of prefer_graphite.
\* A rejection is not caught anywhere in startWorkOnIssue.
FetchIssueDetails ==
    /\ op = "startWorkOnIssue" /\ pc = "fetchIssueDetails"
    /\ \/ /\ calls' = Append(calls, Call("fetchIssueDetails", << issueId, "true" >>,
                                          Undefined, TRUE))
          /\ Terminate("threw")
          /\ UNCHANGED << branchName, preferGraphite >>
       \/ \E b \in BranchNames :
          /\ branchName' = b
          /\ preferGraphite' = IsPreferGraphite(config.prefer_graphite)
          /\ calls' = calls \o
                << Call("fetchIssueDetails", << issueId, "true" >>, b, FALSE),
                   Call("getOption", << "prefer_graphite" >>,
                        config.prefer_graphite, FALSE) >>
          /\ pc' = "branchExists"
          /\ outcome' = outcome
    /\ UNCHANGED << existing, config, op, issueId, teamId, gitSourceRef,
                    branchOperationSucceeded, answer, suffix, newBranch, state,
                    workspace, url, app, providedId, projectId, log >>

\* await branchExists(branchName): present -> prompt, absent -> create it.
CheckBranchExists ==
    /\ op = "startWorkOnIssue" /\ pc = "branchExists"
    /\ \/ /\ calls' = Append(calls, Call("branchExists", << branchName >>,
                                          Undefined, TRUE))
          /\ Terminate("threw")
       \/ /\ calls' = Append(calls, Call("branchExists", << branchName >>,
                                          ToString(branchExists(branchName)), FALSE))
          /\ pc' = IF branchExists(branchName) THEN "prompt" ELSE "createDirect"
          /\ outcome' = outcome
    /\ UNCHANGED << existing, config, op, issueId, teamId, gitSourceRef,
                    branchName, preferGraphite, branchOperationSucceeded, answer,
                    suffix, newBranch, state, workspace, url, app, providedId, projectId, log >>

\* await Select.prompt(...): "switch" -> checkoutBranch, anything else ->
\* findAvailableBranchName, which starts at suffix 1.
SelectPrompt ==
    /\ op = "startWorkOnIssue" /\ pc = "prompt"
    /\ \E a \in Answers :
          /\ answer' = a
          /\ calls' = Append(calls, Call("Select.prompt", << branchName >>, a, FALSE))
          /\ IF a = "switch"
               THEN /\ pc' = "checkoutBranch"
                    /\ UNCHANGED << suffix, newBranch >>
               ELSE /\ pc' = "findAvailableBranchName"
                    /\ suffix' = 1
                    /\ newBranch' = SuffixedName(branchName, 1)
    /\ UNCHANGED << existing, config, op, outcome, issueId, teamId, gitSourceRef,
                    branchName, preferGraphite, branchOperationSucceeded, state,
                    workspace, url, app, providedId, projectId, log >>

\* One evaluation of the loop condition `await branchExists(newBranch)`.
FindAvailableBranchName ==
    /\ op = "startWorkOnIssue" /\ pc = "findAvailableBranchName"
    /\ \/ /\ calls' = Append(calls, Call("branchExists", << newBranch >>,
                                          Undefined, TRUE))
          /\ Terminate("threw")
          /\ UNCHANGED << suffix, newBranch >>
       \/ /\ calls' = Append(calls, Call("branchExists", << newBranch >>,
                                          ToString(branchExists(newBranch)), FALSE))
          /\ outcome' = outcome
          /\ IF branchExists(newBranch)
               THEN /\ suffix' = NextSuffix(suffix)
                    /\ newBranch' = SuffixedName(branchName, NextSuffix(suffix))
                    /\ pc' = pc
               ELSE /\ pc' = "createSuffixed"
                    /\ UNCHANGED << suffix, newBranch >>
    /\ UNCHANGED << existing, config, op, issueId, teamId, gitSourceRef,
                    branchName, preferGraphite, branchOperationSucceeded, answer,
                    state, workspace, url, app, providedId, projectId, log >>

\* branchOperationSucceeded = await checkoutBranch(branchName, preferGraphite)
CheckoutBranch ==
    /\ op = "startWorkOnIssue" /\ pc = "checkoutBranch"
    /\ checkoutBranch(branchName, preferGraphite)
    /\ UNCHANGED << config, op, issueId, teamId, gitSourceRef, branchName,
                    preferGraphite, answer, suffix, newBranch, state,
                    workspace, url, app, providedId, projectId >>

\* A suffixed create that passes the base name: the branch that exists.
CreateSuffixed_BaseName ==
    /\ op = "startWorkOnIssue" /\ pc = "createSuffixed"
    /\ createBranch(branchName, preferGraphite, gitSourceRef)
    /\ UNCHANGED << config, op, issueId, teamId, gitSourceRef, branchName,
                    preferGraphite, answer, suffix, newBranch, state,
                    workspace, url, app, providedId, projectId >>

\* branchOperationSucceeded = await createBranch(newBranch, preferGraphite, gitSourceRef)
CreateSuffixed ==
    /\ op = "startWorkOnIssue" /\ pc = "createSuffixed"
    /\ createBranch(newBranch, preferGraphite, gitSourceRef)
    /\ UNCHANGED << config, op, issueId, teamId, gitSourceRef, branchName,
                    preferGraphite, answer, suffix, newBranch, state,
                    workspace, url, app, providedId, projectId >>

\* A direct create that goes through the suffix: it creates <branchName>-1.
CreateDirect_Suffixed ==
    /\ op = "startWorkOnIssue" /\ pc = "createDirect"
    /\ createBranch(SuffixedName(branchName, 1), preferGraphite, gitSourceRef)
    /\ UNCHANGED << config, op, issueId, teamId, gitSourceRef, branchName,
                    preferGraphite, answer, suffix, newBranch, state,
                    workspace, url, app, providedId, projectId >>

\* branchOperationSucceeded = await createBranch(branchName, preferGraphite, gitSourceRef)
CreateDirect ==
    /\ op = "startWorkOnIssue" /\ pc = "createDirect"
    /\ createBranch(branchName, preferGraphite, gitSourceRef)
    /\ UNCHANGED << config, op, issueId, teamId, gitSourceRef, branchName,
                    preferGraphite, answer, suffix, newBranch, state,
                    workspace, url, app, providedId, projectId >>

\* The state update without its try/catch: the error escapes.
CatchUpdateError_Rethrow ==
    /\ log' = log
    /\ Terminate("threw")

\* The catch clause of the try around the state update.
CatchUpdateError ==
    /\ log' = Append(log, Log("error", UpdateFailedMessage))
    /\ Terminate("returned")

\* A state fetch without the issueId check behind it.
GetStartedState_NoIdCheck ==
    /\ op = "startWorkOnIssue" /\ pc = "getStartedState"
    /\ \/ /\ calls' = Append(calls, Call("getStartedState", << teamId >>,
                                          Undefined, TRUE))
          /\ CatchUpdateError
          /\ state' = state
       \/ \E s \in StartedStates :
          /\ state' = s
          /\ calls' = Append(calls, Call("getStartedState", << teamId >>, s.id, FALSE))
          /\ pc' = "updateIssueState"
          /\ UNCHANGED << outcome, log >>
    /\ UNCHANGED << existing, config, op, issueId, teamId, gitSourceRef,
                    branchName, preferGraphite, branchOperationSucceeded, answer,
                    suffix, newBranch, workspace, url, app, providedId, projectId >>

\* A state fetch whose error is swallowed on the spot: the update goes on
\* without a state.
GetStartedState_IgnoreError ==
    /\ op = "startWorkOnIssue" /\ pc = "getStartedState"
    /\ \/ /\ calls' = Append(calls, Call("getStartedState", << teamId >>,
                                          Undefined, TRUE))
          /\ pc' = "updateIssueState"
          /\ UNCHANGED << state, outcome, log >>
       \/ \E s \in StartedStates :
          /\ state' = s
          /\ calls' = Append(calls, Call("getStartedState", << teamId >>, s.id, FALSE))
          /\ IF Falsy(issueId)
               THEN /\ log' = Append(log, Log("error", NoIssueIdMessage))
                    /\ Terminate("exit1")
               ELSE /\ pc' = "updateIssueState"
                    /\ UNCHANGED << outcome, log >>
    /\ UNCHANGED << existing, config, op, issueId, teamId, gitSourceRef,
                    branchName, preferGraphite, branchOperationSucceeded, answer,
                    suffix, newBranch, workspace, url, app, providedId, projectId >>

\* await getStartedState(teamId) inside the try, then the issueId check.
GetStartedState ==
    /\ op = "startWorkOnIssue" /\ pc = "getStartedState"
    /\ \/ /\ calls' = Append(calls, Call("getStartedState", << teamId >>,
                                          Undefined, TRUE))
          /\ CatchUpdateError
          /\ state' = state
       \/ \E s \in StartedStates :
          /\ state' = s
          /\ calls' = Append(calls, Call("getStartedState", << teamId >>, s.id, FALSE))
          /\ IF Falsy(issueId)
               THEN /\ log' = Append(log, Log("error", NoIssueIdMessage))
                    /\ Terminate("exit1")
               ELSE /\ pc' = "updateIssueState"
                    /\ UNCHANGED << outcome, log >>
    /\ UNCHANGED << existing, config, op, issueId, teamId, gitSourceRef,
                    branchName, preferGraphite, branchOperationSucceeded, answer,
                    suffix, newBranch, workspace, url, app, providedId, projectId >>

\* await updateIssueState(issueId, state.id) inside the try.
UpdateIssueState ==
    /\ op = "startWorkOnIssue" /\ pc = "updateIssueState"
    /\ \/ /\ calls' = Append(calls, Call("updateIssueState", << issueId, state.id >>,
                                          Undefined, TRUE))
          /\ CatchUpdateError
       \/ /\ calls' = Append(calls, Call("updateIssueState", << issueId, state.id >>,
                                          Undefined, FALSE))
          /\ log' = Append(log, Log("log", "Issue state updated to '" \o state.name \o "'"))
          /\ Terminate("returned")
    /\ UNCHANGED << existing, config, op, issueId, teamId, gitSourceRef,
                    branchName, preferGraphite, branchOperationSucceeded, answer,
                    suffix, newBranch, state, workspace, url, app, providedId, projectId >>

-----------------------------------------------------------------------------
(* The filter of the team view: JSON.stringify, encodeBase64, replace *)

\* The printable ASCII characters, code 32 (space) to 126 (~), in code order;
\* code 96 (the grave accent) is spelled out, the lexer takes no such string.
AsciiPrintable ==
    << " ", "!", "\"", "#", "$", "%", "&", "'", "(", ")", "*", "+", ",", "-", ".", "/",
       "0", "1", "2", "3", "4", "5", "6", "7", "8", "9", ":", ";", "<", "=", ">", "?",
       "@", "A", "B", "C", "D", "E", "F", "G", "H", "I", "J", "K", "L", "M", "N", "O",
       "P", "Q", "R", "S", "T", "U", "V", "W", "X", "Y", "Z", "[", "\\", "]", "^", "_",
       "GRAVE", "a", "b", "c", "d", "e", "f", "g", "h", "i", "j", "k", "l", "m", "n", "o",
       "p", "q", "r", "s", "t", "u", "v", "w", "x", "y", "z", "{", "|", "}", "~" >>

\* The UTF-8 byte of a printable ASCII character.
CharCode(c) == 31 + CHOOSE i \in 1..Len(AsciiPrintable) : AsciiPrintable[i] = c

\* The alphabet of @std/encoding/base64, value 0 first.
Base64Alphabet ==
    << "A", "B", "C", "D", "E", "F", "G", "H", "I", "J", "K", "L", "M", "N", "O", "P",
       "Q", "R", "S", "T", "U", "V", "W", "X", "Y", "Z", "a", "b", "c", "d", "e", "f",
       "g", "h", "i", "j", "k", "l", "m", "n", "o", "p", "q", "r", "s", "t", "u", "v",
       "w", "x", "y", "z", "0", "1", "2", "3", "4", "5", "6", "7", "8", "9", "+", "/" >>

B64(v) == Base64Alphabet[v + 1]

\* A sequence of one-character strings as one string.
RECURSIVE Join(_)
Join(cs) == IF cs = << >> THEN "" ELSE Head(cs) \o Join(Tail(cs))

\* JSON values, as far as the filter needs them: booleans, arrays and objects
\* whose members keep their order; a key is its sequence of characters.
JBool(b) == [t |-> "bool", b |-> b]
JArr(items) == [t |-> "arr", items |-> items]
JObj(members) == [t |-> "obj", members |-> members]
Member(k, v) == [k |-> k, v |-> v]

\* { "and": [{ "assignee": { "or": [{ "isMe": { "eq": true } }] } }] }
filterObj ==
    JObj(<< Member(<< "a", "n", "d" >>,
        JArr(<< JObj(<< Member(<< "a", "s", "s", "i", "g", "n", "e", "e" >>,
            JObj(<< Member(<< "o", "r" >>,
                JArr(<< JObj(<< Member(<< "i", "s", "M", "e" >>,
                    JObj(<< Member(<< "e", "q" >>, JBool(TRUE)) >>)) >>) >>)) >>)) >>) >>)) >>)

\* JSON.stringify without an indent argument: no white space, members and
\* items in order, separated by commas.
RECURSIVE JSONstringify(_), StringifyItems(_), StringifyMembers(_)
JSONstringify(v) ==
    CASE v.t = "bool" -> IF v.b THEN << "t", "r", "u", "e" >>
                                ELSE << "f", "a", "l", "s", "e" >>
      [] v.t = "arr" -> << "[" >> \o StringifyItems(v.items) \o << "]" >>
      [] v.t = "obj" -> << "{" >> \o StringifyMembers(v.members) \o << "}" >>

StringifyItems(items) ==
    IF items = << >> THEN << >>
    ELSE JSONstringify(Head(items)) \o
         (IF Len(items) = 1 THEN << >> ELSE << "," >> \o StringifyItems(Tail(items)))

StringifyMembers(ms) ==
    IF ms = << >> THEN << >>
    ELSE << "\"" >> \o Head(ms).k \o << "\"", ":" >> \o JSONstringify(Head(ms).v) \o
         (IF Len(ms) = 1 THEN << >> ELSE << "," >> \o StringifyMembers(Tail(ms)))

\* The UTF-8 bytes of a text of printable ASCII characters.
Utf8(cs) == [i \in 1..Len(cs) |-> CharCode(cs[i])]

\* encodeBase64: three bytes become four characters; a last group of one or
\* two bytes is padded with "=".
RECURSIVE encodeBase64(_)
encodeBase64(bytes) ==
    IF bytes = << >> THEN << >>
    ELSE IF Len(bytes) = 1 THEN
        << B64(bytes[1] \div 4), B64((bytes[1] % 4) * 16), "=", "=" >>
    ELSE IF Len(bytes) = 2 THEN
        << B64(bytes[1] \div 4),
           B64((bytes[1] % 4) * 16 + bytes[2] \div 16),
           B64((bytes[2] % 16) * 4), "=" >>
    ELSE
        << B64(bytes[1] \div 4),
           B64((bytes[1] % 4) * 16 + bytes[2] \div 16),
           B64((bytes[2] % 16) * 4 + bytes[3] \div 64),
           B64(bytes[3] % 64) >> \o encodeBase64(SubSeq(bytes, 4, Len(bytes)))

\* An encoding that keeps the padding.
StripPadding_Keep(cs) == cs

\* .replace(/=/g, "")
StripPadding(cs) == SelectSeq(cs, LAMBDA c : c # "=")

\* encodeBase64(JSON.stringify(filterObj)).replace(/=/g, "")
EncodedFilter == StripPadding(encodeBase64(Utf8(JSONstringify(filterObj))))

-----------------------------------------------------------------------------
(* The page openers *)

NoIssueIdMessageOpen == "The current branch does not contain a valid linear issue id."
NoWorkspaceMessage ==
    "workspace is not set via command line, configuration file, or environment."
NoTeamMessage == "Could not determine team id from configuration or directory name."

\* An opener that never checks the issue id.
NoIssueId_Unchecked(i) == FALSE

\* A workspace test against undefined only: the empty string passes.
NoWorkspace_UndefinedOnly(w) == w = Undefined

\* !issueId, !workspace, !teamId: the value is undefined or empty.
NoIssueId(i) == Falsy(i)
NoWorkspace(w) == Falsy(w)
NoTeamId(t) == Falsy(t)

IssueUrl(w, i) == "https://linear.app/" \o w \o "/issue/" \o i
ProjectUrl(w, p) == "https://linear.app/" \o w \o "/project/" \o p
TeamUrl(w, t, f) == "https://linear.app/" \o w \o "/team/" \o t \o "/active?filter=" \o f

\* options.app ? "Linear.app" : "web browser"
Destination(a) == IF a THEN "Linear.app" ELSE "web browser"

\* options.app ? { app: { name: "Linear" } } : undefined
OpenOptions(a) == IF a THEN "Linear" ELSE Undefined

\* Deno.exit(1) after a console.error line.
Fatal(msg) ==
    /\ log' = Append(log, Log("error", msg))
    /\ Terminate("exit1")

\* The call of open(url, ...) that ends each opener; cl are the calls made
\* before it, a is options.app, announce tells whether the "Opening ..."
\* line is printed.
Open(cl, u, a, announce) ==
    /\ url' = u
    /\ calls' = Append(cl, Call("open", << u, OpenOptions(a) >>, Undefined, FALSE))
    /\ log' = IF announce
                THEN Append(log, Log("log", "Opening " \o u \o " in " \o Destination(a)))
                ELSE log
    /\ pc' = "open"
    /\ outcome' = outcome

GetOptionCall(name) == Call("getOption", << name >>, config[name], FALSE)

\* The CLI calls openIssuePage(providedId, options); the function awaits
\* getIssueIdentifier(providedId).
OpenIssuePage ==
    /\ pc = "idle"
    /\ \E p \in ResolvedIssueIds, a \in BOOLEAN :
          /\ providedId' = p
          /\ app' = a
    /\ op' = "openIssuePage"
    /\ pc' = "getIssueIdentifier"
    /\ UNCHANGED << existing, config, outcome, issueId, teamId, gitSourceRef,
                    projectId, branchName, preferGraphite,
                    branchOperationSucceeded, answer, suffix, newBranch, state,
                    workspace, url, calls, log >>

\* getIssueIdentifier resolves; the rest of openIssuePage up to open(url).
GetIssueIdentifier ==
    /\ op = "openIssuePage" /\ pc = "getIssueIdentifier"
    /\ \E r \in ResolvedIssueIds :
          LET c1 == Append(calls, Call("getIssueIdentifier", << providedId >>, r, FALSE))
              c2 == Append(c1, GetOptionCall("workspace"))
          IN  /\ issueId' = r
              /\ IF NoIssueId(r)
                   THEN /\ calls' = c1
                        /\ Fatal(NoIssueIdMessageOpen)
                        /\ UNCHANGED << workspace, url >>
                   ELSE /\ workspace' = config.workspace
                        /\ IF NoWorkspace(config.workspace)
                             THEN /\ calls' = c2
                                  /\ Fatal(NoWorkspaceMessage)
                                  /\ url' = url
                             ELSE Open(c2, IssueUrl(config.workspace, r), app, TRUE)
    /\ UNCHANGED << existing, config, op, teamId, gitSourceRef, providedId,
                    projectId, branchName, preferGraphite,
                    branchOperationSucceeded, answer, suffix, newBranch, state,
                    app >>

\* openProjectPage(projectId, options) up to open(url).
OpenProjectPage ==
    /\ pc = "idle"
    /\ op' = "openProjectPage"
    /\ \E p \in ProjectIds, a \in BOOLEAN :
          /\ projectId' = p
          /\ app' = a
          /\ workspace' = config.workspace
          /\ IF NoWorkspace(config.workspace)
               THEN /\ calls' = Append(calls, GetOptionCall("workspace"))
                    /\ Fatal(NoWorkspaceMessage)
                    /\ url' = url
               ELSE Open(Append(calls, GetOptionCall("workspace")),
                         ProjectUrl(config.workspace, p), a, TRUE)
    /\ UNCHANGED << existing, config, issueId, teamId, gitSourceRef, providedId,
                    branchName, preferGraphite, branchOperationSucceeded,
                    answer, suffix, newBranch, state >>

\* openTeamAssigneeView(options) up to open(url).
OpenTeamAssigneeView ==
    /\ pc = "idle"
    /\ op' = "openTeamAssigneeView"
    /\ \E t \in TeamKeys, a \in BOOLEAN :
          LET c1 == Append(calls, Call("getTeamKey", << >>, t, FALSE))
              c2 == Append(c1, GetOptionCall("workspace"))
          IN  /\ teamId' = t
              /\ app' = a
              /\ IF NoTeamId(t)
                   THEN /\ calls' = c1
                        /\ Fatal(NoTeamMessage)
                        /\ UNCHANGED << workspace, url >>
                   ELSE /\ workspace' = config.workspace
                        /\ IF NoWorkspace(config.workspace)
                             THEN /\ calls' = c2
                                  /\ Fatal(NoWorkspaceMessage)
                                  /\ url' = url
                             ELSE Open(c2, TeamUrl(config.workspace, t, Join(EncodedFilter)),
                                       a, FALSE)
    /\ UNCHANGED << existing, config, issueId, gitSourceRef, providedId, projectId,
                    branchName, preferGraphite, branchOperationSucceeded,
                    answer, suffix, newBranch, state >>

\* `await open(...)` resolves and the opener returns.
OpenReturns ==
    /\ pc = "open"
    /\ Terminate("returned")
    /\ UNCHANGED << existing, config, op, issueId, teamId, gitSourceRef,
                    providedId, projectId, branchName, preferGraphite,
                    branchOperationSucceeded, answer, suffix, newBranch, state,
                    workspace, url, app, calls, log >>

-----------------------------------------------------------------------------
(* The process *)

\* The branch names a repository of the model may hold.
ExistingNames ==
    BranchNames \cup {SuffixedName(b, k) : b \in BranchNames, k \in 1..MaxSuffix}

\* A fresh process: any repository, any configuration, nothing called yet.
Init ==
    /\ existing \in SUBSET ExistingNames
    /\ config \in [workspace : WorkspaceValues, prefer_graphite : PreferGraphiteValues]
    /\ op = "none"
    /\ pc = "idle"
    /\ outcome = "running"
    /\ issueId = Undefined
    /\ teamId = Undefined
    /\ gitSourceRef = Undefined
    /\ providedId = Undefined
    /\ projectId = Undefined
    /\ branchName = Undefined
    /\ preferGraphite = FALSE
    /\ branchOperationSucceeded = FALSE
    /\ answer = Undefined
    /\ suffix = 0
    /\ newBranch = Undefined
    /\ state = [id |-> Undefined, name |-> Undefined]
    /\ workspace = Undefined
    /\ url = Undefined
    /\ app = FALSE
    /\ calls = << >>
    /\ log = << >>

Next ==
    \/ StartWorkOnIssue
    \/ FetchIssueDetails
    \/ CheckBranchExists
    \/ SelectPrompt
    \/ FindAvailableBranchName
    \/ CheckoutBranch
    \/ CreateSuffixed
    \/ CreateDirect
    \/ GetStartedState
    \/ UpdateIssueState
    \/ OpenIssuePage
    \/ GetIssueIdentifier
    \/ OpenProjectPage
    \/ OpenTeamAssigneeView
    \/ OpenReturns

Spec == Init /\ [][Next]_vars

\* The same process when every call it awaits comes back: a step that is
\* possible is eventually taken.
FairSpec == Spec /\ WF_vars(Next)

-----------------------------------------------------------------------------
(* Properties *)

Last(q) == q[Len(q)]

StartRun == op = "startWorkOnIssue"
Done == pc = "done"

\* The branchExists calls of the run; the first one probes branchName.
Probes == CallsOf("branchExists")
PromptCalls == CallsOf("Select.prompt")
StateCalls == CallsOf("getStartedState")
UpdateCalls == CallsOf("updateIssueState")
OpenCalls == CallsOf("open")

IsCheckoutOf(c, b) ==
    c.args = << "git", "checkout", b >> \/ c.args = << "gt", "checkout", b >>

IsCreateOf(c, b) ==
    \/ c.args = << "gt", "create", b >>
    \/ Len(c.args) = 5 /\ SubSeq(c.args, 1, 4) = << "git", "checkout", "-b", b >>

\* branchExists(branchName) returned false / true and the user answered.
DirectCase == StartRun /\ Probes # << >> /\ ~Probes[1].threw /\ Probes[1].ret = "FALSE"
CreateCase == StartRun /\ answer = "create"
SwitchCase == StartRun /\ answer = "switch"

\* C1: updateIssueState is never called unless the one branch operation of
\* the run (checkout or create) returned success: while
\* branchOperationSucceeded is false no call has been made, and a call
\* implies exactly one spawned command, which exited with success.
C1_UpdateOnlyAfterBranchSuccess ==
    StartRun =>
        /\ ~branchOperationSucceeded => UpdateCalls = << >>
        /\ UpdateCalls # << >> => Len(Spawned) = 1 /\ Spawned[1].ret = "success"

\* A finished run whose branch command failed and which made no update call.
C1_Witness ==
    /\ StartRun /\ Done /\ outcome = "returned"
    /\ Len(Spawned) = 1 /\ Spawned[1].ret = "failure"
    /\ UpdateCalls = << >>

\* C2: when branchExists(branchName) returned false, the run shows no
\* prompt, probes no other name, spawns nothing but the create of exactly
\* branchName (never a checkout of it), and has spawned that create once it
\* is past the create step.
C2_AbsentBranchCreatedDirectly ==
    DirectCase =>
        /\ Probes[1].args = << branchName >>
        /\ Len(Probes) = 1
        /\ PromptCalls = << >>
        /\ Len(Spawned) <= 1
        /\ \A i \in 1..Len(Spawned) :
              IsCreateOf(Spawned[i], branchName) /\ ~IsCheckoutOf(Spawned[i], branchName)
        /\ pc # "createDirect" => Len(Spawned) = 1

\* A finished run that created the absent branch directly.
C2_Witness ==
    /\ DirectCase /\ Done
    /\ Len(Spawned) = 1 /\ IsCreateOf(Spawned[1], branchName)

\* C3: after the answer "create" the probes that follow the first one are
\* branchName-1, branchName-2, ... in this order without a gap; every probe
\* but the last reported an existing branch; the search ends at the first
\* name reported absent, and the only command spawned is the create of
\* exactly that name.  When the search has ended, every smaller suffix
\* names a branch of the repository and the chosen name does not.
C3_FirstFreeSuffixCreated ==
    CreateCase =>
        LET sp == Tail(Probes)
            n == Len(sp)
            found == n >= 1 /\ ~sp[n].threw /\ sp[n].ret = "FALSE"
        IN  /\ Probes[1].args = << branchName >> /\ Probes[1].ret = "TRUE"
            /\ \A j \in 1..n : sp[j].args = << branchName \o "-" \o ToString(j) >>
            /\ \A j \in 1..(n - 1) : ~sp[j].threw /\ sp[j].ret = "TRUE"
            /\ pc = "findAvailableBranchName" =>
                  /\ \A j \in 1..n : ~sp[j].threw /\ sp[j].ret = "TRUE"
                  /\ suffix = n + 1
            /\ pc = "createSuffixed" =>
                  /\ found
                  /\ newBranch \notin existing
                  /\ \A j \in 1..(n - 1) : (branchName \o "-" \o ToString(j)) \in existing
            /\ Len(Spawned) <= 1
            /\ \A i \in 1..Len(Spawned) :
                  found /\ IsCreateOf(Spawned[i], branchName \o "-" \o ToString(n))
            /\ pc \in {"getStartedState", "updateIssueState"} => Len(Spawned) = 1
            /\ Done /\ found => Len(Spawned) = 1

\* A finished run that passed over at least one taken suffix and created.
C3_Witness ==
    /\ CreateCase /\ Done
    /\ Len(Probes) >= 3
    /\ Len(Spawned) = 1 /\ IsCreateOf(Spawned[1], newBranch)

PageOps == {"openIssuePage", "openProjectPage", "openTeamAssigneeView"}

\* C4: in each of the three page openers, when the workspace option is
\* missing (undefined or empty) open is never called, the opener is never
\* left waiting for it, and the process ends only with exit status 1.
C4_NoWorkspaceNoOpen ==
    op \in PageOps /\ Falsy(config.workspace) =>
        /\ OpenCalls = << >>
        /\ pc # "open"
        /\ Done => outcome = "exit1"

\* openIssuePage resolved an issue id, found no workspace and exited.
C4_Witness ==
    /\ op = "openIssuePage" /\ Done /\ outcome = "exit1"
    /\ ~Falsy(issueId) /\ Falsy(config.workspace)
    /\ Last(calls).fn = "getOption"

\* C5: when getStartedState or updateIssueState has thrown, the run has
\* ended by returning normally (no exception, no exit), the last line
\* logged is the error line of the catch clause, and the successful branch
\* command is the only command spawned: nothing undoes it, a branch it
\* created is still in the repository.
C5_UpdateErrorCaught ==
    StartRun /\ calls # << >> /\ Last(calls).threw
             /\ Last(calls).fn \in {"getStartedState", "updateIssueState"} =>
        /\ Done /\ outcome = "returned"
        /\ log # << >> /\ Last(log) = Log("error", UpdateFailedMessage)
        /\ branchOperationSucceeded
        /\ Len(Spawned) = 1 /\ Spawned[1].ret = "success"
        /\ \A b \in ExistingNames \cup {newBranch} :
              IsCreateOf(Spawned[1], b) => b \in existing

\* updateIssueState threw after a successful branch operation.
C5_Witness ==
    /\ StartRun /\ Done
    /\ UpdateCalls # << >> /\ Last(calls).fn = "updateIssueState" /\ Last(calls).threw

\* C6: every run of startWorkOnIssue that does not end in the fatal exit
\* ends by returning normally, with at least one line logged that tells
\* how far the workflow got.
C6_EveryFailureLoggedNotThrown ==
    StartRun /\ Done /\ outcome # "exit1" =>
        /\ outcome = "returned"
        /\ log # << >>

\* C7: after the answer "switch" the run probes nothing but branchName,
\* spawns at most one command, which is the checkout of branchName (never a
\* create); once the checkout has run, branchOperationSucceeded is its exit
\* status; and when it failed, updateIssueState is not called, the failure
\* line is the last line logged and the run has returned.
C7_SwitchChecksOutExisting ==
    SwitchCase =>
        /\ Len(Probes) = 1 /\ Probes[1].args = << branchName >> /\ Probes[1].ret = "TRUE"
        /\ Len(Spawned) <= 1
        /\ \A i \in 1..Len(Spawned) :
              IsCheckoutOf(Spawned[i], branchName) /\ ~IsCreateOf(Spawned[i], branchName)
        /\ pc # "checkoutBranch" =>
              /\ Len(Spawned) = 1
              /\ branchOperationSucceeded = (Spawned[1].ret = "success")
        /\ Spawned # << >> /\ Spawned[1].ret = "failure" =>
              /\ UpdateCalls = << >>
              /\ Done /\ outcome = "returned"
              /\ log # << >> /\ Last(log) = Log("log", BranchFailedMessage)

\* The checkout of the existing branch failed.
C7_Witness ==
    /\ SwitchCase /\ Done
    /\ Len(Spawned) = 1 /\ Spawned[1].ret = "failure"

\* C8: with the git backend and branchExists(branchName) false, the command
\* spawned is `git checkout -b branchName ref`, ref being gitSourceRef when
\* one is given and HEAD when it is undefined or empty; any call of
\* updateIssueState follows a successful command and one returned
\* getStartedState(teamId), and its arguments are the issueId of the run and
\* the id getStartedState returned; that call has been made on every
\* finished run whose command succeeded, whose getStartedState returned and
\* whose issueId is not empty.
C8_GitCreateThenUpdate ==
    DirectCase /\ config.prefer_graphite # "true" =>
        /\ \A i \in 1..Len(Spawned) :
              Spawned[i].args =
                  << "git", "checkout", "-b", branchName,
                     IF gitSourceRef \in {Undefined, ""} THEN "HEAD" ELSE gitSourceRef >>
        /\ \A i \in 1..Len(StateCalls) : StateCalls[i].args = << teamId >>
        /\ UpdateCalls # << >> =>
              /\ Spawned[1].ret = "success"
              /\ Len(StateCalls) = 1 /\ ~StateCalls[1].threw
              /\ Len(UpdateCalls) = 1
              /\ UpdateCalls[1].args = << issueId, StateCalls[1].ret >>
              /\ StateCalls[1].ret = state.id
        /\ ( /\ Done /\ Spawned # << >> /\ Spawned[1].ret = "success"
             /\ StateCalls # << >> /\ ~StateCalls[1].threw /\ issueId # "" )
              => Len(UpdateCalls) = 1

\* git created the branch from the given ref and the update was made.
C8_Witness ==
    /\ DirectCase /\ config.prefer_graphite # "true" /\ Done
    /\ gitSourceRef = "main"
    /\ Spawned[1].args = << "git", "checkout", "-b", branchName, "main" >>
    /\ Len(UpdateCalls) = 1 /\ ~UpdateCalls[1].threw

PreferGraphiteReads ==
    SelectSeq(calls, LAMBDA c : c.fn = "getOption" /\ c.args = << "prefer_graphite" >>)

\* C9: a run reads prefer_graphite at most once, and exactly once as soon as
\* fetchIssueDetails has returned; every command the run spawns is gt when
\* the option is exactly "true" and git otherwise.
C9_BackendChosenOnce ==
    StartRun =>
        /\ Len(PreferGraphiteReads) <= 1
        /\ branchName # Undefined => Len(PreferGraphiteReads) = 1
        /\ \A i \in 1..Len(Spawned) :
              Spawned[i].args[1] = IF config.prefer_graphite = "true" THEN "gt" ELSE "git"

\* A run spawned git although prefer_graphite is set, to "false".
C9_Witness ==
    /\ StartRun /\ Done
    /\ config.prefer_graphite = "false"
    /\ Len(Spawned) = 1 /\ Spawned[1].args[1] = "git"

\* C10: openIssuePage calls open only with an issue id and a workspace
\* resolved, and at most once; a finished openIssuePage with either one
\* unresolved has exited with status 1 without a call of open, and with
\* both resolved has called open exactly once.  The same holds of
\* openTeamAssigneeView for the team key and the workspace.
C10_OpenOnlyWhenResolved ==
    /\ op = "openIssuePage" =>
          /\ Len(OpenCalls) <= 1
          /\ OpenCalls # << >> => ~Falsy(issueId) /\ ~Falsy(config.workspace)
          /\ Done /\ (Falsy(issueId) \/ Falsy(config.workspace)) =>
                outcome = "exit1" /\ OpenCalls = << >>
          /\ Done /\ ~Falsy(issueId) /\ ~Falsy(config.workspace) =>
                outcome = "returned" /\ Len(OpenCalls) = 1
    /\ op = "openTeamAssigneeView" =>
          /\ Len(OpenCalls) <= 1
          /\ Falsy(teamId) => Done /\ outcome = "exit1" /\ OpenCalls = << >>
          /\ Done /\ ~Falsy(teamId) /\ ~Falsy(config.workspace) =>
                outcome = "returned" /\ Len(OpenCalls) = 1

\* openIssuePage found no issue id although a workspace is configured.
C10_Witness ==
    /\ op = "openIssuePage" /\ Done /\ outcome = "exit1"
    /\ Falsy(issueId) /\ ~Falsy(config.workspace)
    /\ OpenCalls = << >>

-----------------------------------------------------------------------------
(* Decoding the filter: the inverse conversions, written independently *)

\* The padding a stripped base64 text lacks: its length made a multiple of 4.
RestorePadding(cs) ==
    cs \o [i \in 1..((4 - (Len(cs) % 4)) % 4) |-> "="]

B64Value(c) == CHOOSE v \in 0..63 : Base64Alphabet[v + 1] = c

\* Four characters become three bytes; "=" ends the text one or two bytes
\* early.
RECURSIVE decodeBase64(_)
decodeBase64(cs) ==
    IF cs = << >> THEN << >>
    ELSE LET a == B64Value(cs[1])
             b == B64Value(cs[2])
         IN  IF cs[3] = "=" THEN << a * 4 + b \div 16 >>
             ELSE LET c == B64Value(cs[3])
                  IN  IF cs[4] = "="
                        THEN << a * 4 + b \div 16, (b % 16) * 16 + c \div 4 >>
                        ELSE << a * 4 + b \div 16, (b % 16) * 16 + c \div 4,
                                (c % 4) * 64 + B64Value(cs[4]) >>
                             \o decodeBase64(SubSeq(cs, 5, Len(cs)))

\* The text of a sequence of printable ASCII bytes.
Utf8Decode(bytes) == [i \in 1..Len(bytes) |-> AsciiPrintable[bytes[i] - 31]]

Drop(cs, k) == SubSeq(cs, k + 1, Len(cs))

\* JSON.parse for booleans, arrays and objects with plain keys.  Each parser
\* returns the value read and the text left.
RECURSIVE ParseValue(_), ParseItems(_, _), ParseMembers(_, _)
ParseValue(cs) ==
    CASE cs[1] = "t" -> [val |-> JBool(TRUE), rest |-> Drop(cs, 4)]
      [] cs[1] = "f" -> [val |-> JBool(FALSE), rest |-> Drop(cs, 5)]
      [] cs[1] = "[" ->
            IF cs[2] = "]" THEN [val |-> JArr(<< >>), rest |-> Drop(cs, 2)]
                           ELSE ParseItems(Drop(cs, 1), << >>)
      [] cs[1] = "{" ->
            IF cs[2] = "}" THEN [val |-> JObj(<< >>), rest |-> Drop(cs, 2)]
                           ELSE ParseMembers(Drop(cs, 1), << >>)

ParseItems(cs, acc) ==
    LET r == ParseValue(cs)
    IN  IF r.rest[1] = ","
          THEN ParseItems(Drop(r.rest, 1), Append(acc, r.val))
          ELSE [val |-> JArr(Append(acc, r.val)), rest |-> Drop(r.rest, 1)]

ParseMembers(cs, acc) ==
    LET close == CHOOSE i \in 2..Len(cs) :
                    cs[i] = "\"" /\ \A j \in 2..(i - 1) : cs[j] # "\""
        key == SubSeq(cs, 2, close - 1)
        r == ParseValue(Drop(cs, close + 1))
    IN  IF r.rest[1] = ","
          THEN ParseMembers(Drop(r.rest, 1), Append(acc, Member(key, r.val)))
          ELSE [val |-> JObj(Append(acc, Member(key, r.val))), rest |-> Drop(r.rest, 1)]

JSONparse(cs) == ParseValue(cs).val

\* The filter parameter every call must carry: the base64 text of
\* {"and":[{"assignee":{"or":[{"isMe":{"eq":true}}]}}]} without its "==".
ExpectedFilter == "eyJhbmQiOlt7ImFzc2lnbmVlIjp7Im9yIjpbeyJpc01lIjp7ImVxIjp0cnVlfX1dfX1dfQ"

\* C11: whenever openTeamAssigneeView calls open, the url ends in the same
\* filter text, which is the computed encoding of the filter object; that
\* encoding holds none of "=", "+" and "/"; and restoring its padding,
\* decoding the base64 and parsing the JSON gives the filter object back.
C11_FilterRoundTrip ==
    op = "openTeamAssigneeView" /\ OpenCalls # << >> =>
        /\ url = "https://linear.app/" \o workspace \o "/team/" \o teamId
                    \o "/active?filter=" \o ExpectedFilter
        /\ OpenCalls[1].args[1] = url
        /\ Join(EncodedFilter) = ExpectedFilter
        /\ \A i \in 1..Len(EncodedFilter) : EncodedFilter[i] \notin {"=", "+", "/"}
        /\ Utf8Decode(decodeBase64(RestorePadding(EncodedFilter)))
              = JSONstringify(filterObj)
        /\ JSONparse(Utf8Decode(decodeBase64(RestorePadding(EncodedFilter)))) = filterObj

\* openTeamAssigneeView opened the filtered team view.
C11_Witness ==
    /\ op = "openTeamAssigneeView" /\ Done /\ outcome = "returned"
    /\ Len(OpenCalls) = 1 /\ url # Undefined

\* C12: when the branch command of the run exited non-zero, neither
\* getStartedState nor updateIssueState is called, nothing at all is called
\* after the command, the failure line is the last line logged, and the run
\* has returned normally: no exit, no exception.
C12_FailedBranchSkipsUpdate ==
    StartRun /\ Spawned # << >> /\ Last(Spawned).ret = "failure" =>
        /\ ~branchOperationSucceeded
        /\ StateCalls = << >> /\ UpdateCalls = << >>
        /\ Last(calls).fn = "Deno.Command"
        /\ Done /\ outcome = "returned"
        /\ log # << >> /\ Last(log) = Log("log", BranchFailedMessage)

\* gt failed to create a suffixed branch and the run returned.
C12_Witness ==
    /\ CreateCase /\ Done /\ outcome = "returned"
    /\ preferGraphite
    /\ Len(Spawned) = 1 /\ Spawned[1].ret = "failure"
    /\ IsCreateOf(Spawned[1], newBranch)

\* The place of the i-th call of a run in the order of startWorkOnIssue.
CallRank(i) ==
    LET f == calls[i].fn
    IN  CASE f = "fetchIssueDetails" -> 1
          [] f = "getOption" -> 2
          [] f = "branchExists" -> IF i = 3 THEN 3 ELSE 5
          [] f = "Select.prompt" -> 4
          [] f = "Deno.Command" -> 6
          [] f = "getStartedState" -> 7
          [] f = "updateIssueState" -> 8
          [] OTHER -> 0

\* C13: the calls of a run come in the order fetchIssueDetails, the read of
\* prefer_graphite, branchExists(branchName), the prompt, the suffix probes,
\* one checkout or create, getStartedState(teamId), updateIssueState; only
\* the suffix probes repeat.  updateIssueState directly follows a
\* getStartedState(teamId) that returned and carries the id it returned;
\* after a getStartedState that threw there is no updateIssueState.
C13_CallOrder ==
    StartRun =>
        /\ \A i \in 1..Len(calls) : CallRank(i) # 0
        /\ \A i \in 1..(Len(calls) - 1) :
              \/ CallRank(i) < CallRank(i + 1)
              \/ CallRank(i) = 5 /\ CallRank(i + 1) = 5
        /\ calls # << >> => calls[1].fn = "fetchIssueDetails"
        /\ Len(calls) >= 2 => calls[2].args = << "prefer_graphite" >>
        /\ Len(calls) >= 3 => calls[3].fn = "branchExists" /\ calls[3].args = << branchName >>
        /\ Spawned # << >> => calls[Len(calls) - Len(StateCalls) - Len(UpdateCalls)].fn = "Deno.Command"
        /\ Len(StateCalls) <= 1 /\ Len(UpdateCalls) <= 1
        /\ \A i \in 1..Len(calls) :
              calls[i].fn = "updateIssueState" =>
                  /\ i > 1
                  /\ calls[i - 1].fn = "getStartedState"
                  /\ ~calls[i - 1].threw
                  /\ calls[i - 1].args = << teamId >>
                  /\ calls[i].args[2] = calls[i - 1].ret
        /\ StateCalls # << >> /\ StateCalls[1].threw => UpdateCalls = << >>

\* A run that went through every kind of call, the update last.
C13_Witness ==
    /\ CreateCase /\ Done
    /\ Len(Probes) >= 3
    /\ Last(calls).fn = "updateIssueState" /\ ~Last(calls).threw

\* The probes findAvailableBranchName has made.
SuffixProbes == IF Probes = << >> THEN << >> ELSE Tail(Probes)

\* C14: before the create, the suffix search has made at most one probe
\* more than the repository has branches; and, every awaited call coming
\* back, each run of startWorkOnIssue ends.
C14_SearchAndRunTerminate ==
    /\ [](StartRun /\ Spawned = << >> => Len(SuffixProbes) <= Cardinality(existing) + 1)
    /\ (StartRun ~> Done)

\* A run that found every suffix of the model taken, searched on and ended.
C14_Witness ==
    /\ CreateCase /\ Done
    /\ Len(SuffixProbes) = MaxSuffix + 1
    /\ Len(Spawned) = 1

\* The name a create command creates.
CreatedName(c) == IF c.args[1] = "gt" THEN c.args[3] ELSE c.args[4]

IsCreate(c) == \E b \in ExistingNames \cup {branchName, newBranch} : IsCreateOf(c, b)

\* C15: with prefer_graphite "true" every command of the run has the three
\* words gt, subcommand, name; a create is `gt create <name>` for the name
\* the run chose (branchName, or the suffixed name after the answer
\* "create"), whatever gitSourceRef is; gitSourceRef is no word of it.
C15_GraphiteCreateIgnoresSourceRef ==
    StartRun /\ config.prefer_graphite = "true" =>
        \A i \in 1..Len(Spawned) :
            /\ Len(Spawned[i].args) = 3
            /\ Spawned[i].args[1] = "gt"
            /\ \A k \in 1..Len(Spawned[i].args) :
                  gitSourceRef # Undefined => Spawned[i].args[k] # gitSourceRef
            /\ answer # "switch" =>
                  Spawned[i].args =
                      << "gt", "create", IF answer = "create" THEN newBranch ELSE branchName >>

\* gt created a branch in a run that was given the source ref main.
C15_Witness ==
    /\ StartRun /\ Done
    /\ config.prefer_graphite = "true" /\ gitSourceRef = "main"
    /\ Len(Spawned) = 1 /\ Spawned[1].args[2] = "create"
    /\ Spawned[1].ret = "success"

\* No call of the tracker or of branchExists threw so far.
NoCallThrew ==
    \A i \in 1..Len(calls) :
        calls[i].fn \in {"fetchIssueDetails", "branchExists"} => ~calls[i].threw

\* C16: a run spawns at most one command; once it is past the branch step
\* with fetchIssueDetails and every existence check returned, it has spawned
\* exactly one, a checkout or a create; and a create names a branch that
\* the run has probed, whose latest probe before the create returned false.
C16_OneCommandOnFreeName ==
    StartRun =>
        /\ Len(Spawned) <= 1
        /\ \A i \in 1..Len(Spawned) :
              IsCheckoutOf(Spawned[i], branchName) \/ IsCreate(Spawned[i])
        /\ ( \/ pc \in {"getStartedState", "updateIssueState"}
             \/ Done /\ NoCallThrew ) => Len(Spawned) = 1
        /\ \A i \in 1..Len(calls) :
              calls[i].fn = "Deno.Command" /\ IsCreate(calls[i]) =>
                  \E j \in 1..(i - 1) :
                      /\ calls[j].fn = "branchExists"
                      /\ calls[j].args = << CreatedName(calls[i]) >>
                      /\ ~calls[j].threw /\ calls[j].ret = "FALSE"
                      /\ \A k \in (j + 1)..(i - 1) :
                            ~(calls[k].fn = "branchExists" /\ calls[k].args = calls[j].args)

\* A run checked out the existing branch: one command, no create.
C16_Witness ==
    /\ SwitchCase /\ Done /\ NoCallThrew
    /\ Len(Spawned) = 1 /\ IsCheckoutOf(Spawned[1], branchName)
    /\ Spawned[1].ret = "success"

\* C17: a run with an empty issueId never calls updateIssueState; it has
\* exited with status 1 only after a successful branch command and a
\* getStartedState that returned, the last call made, with the error line
\* logged last; a finished run whose branch command failed or whose
\* getStartedState threw has returned normally, and one whose
\* getStartedState returned has exited with status 1.
C17_EmptyIssueIdExitsAfterStateFetch ==
    StartRun /\ issueId = "" =>
        /\ UpdateCalls = << >>
        /\ pc # "updateIssueState"
        /\ outcome = "exit1" =>
              /\ branchOperationSucceeded
              /\ Len(Spawned) = 1 /\ Spawned[1].ret = "success"
              /\ Last(calls).fn = "getStartedState" /\ ~Last(calls).threw
              /\ Last(log) = Log("error", NoIssueIdMessage)
        /\ Done /\ Spawned # << >> /\ Spawned[1].ret = "failure" => outcome = "returned"
        /\ Done /\ StateCalls # << >> /\ StateCalls[1].threw => outcome = "returned"
        /\ StateCalls # << >> /\ ~StateCalls[1].threw => Done /\ outcome = "exit1"

\* The run created its branch, fetched the state and exited on the empty id.
C17_Witness ==
    /\ StartRun /\ issueId = "" /\ Done /\ outcome = "exit1"
    /\ Len(StateCalls) = 1

====
